---- MODULE Spec2Model ----
(***************************************************************************)
(* Model of connectwise-export-formatter/original.py: the brace-aware line *)
(* scanner, the record validator, the filename sanitizer and the           *)
(* line-by-line extractor loop of process_file.                            *)
(*                                                                         *)
(* Text is a sequence of one-character strings.  A line keeps its line     *)
(* terminator, as the lines of Python's file iterator do.                  *)
(***************************************************************************)
EXTENDS Integers, Sequences, FiniteSets, TLC

VARIABLES
    pc,               \* position: "loop" | "done" | "raised"  (or "call" | "return")
    read,             \* the lines the file iterator has yielded so far
    buffer,           \* process_file: buffer
    brace_balance,    \* process_file: brace_balance
    in_json,          \* process_file: in_json
    potential_title,  \* process_file: potential_title
    records_created,  \* process_file: records_created
    lines_read,       \* process_file: lines_read
    files,            \* names of the files that exist in OUTPUT_DIR
    log,              \* levels of the records the loop handed to logger
    closed,           \* one entry per finalized candidate, in order
    opened,           \* line number and pending title at the last opening line
    arg,              \* argument of a stand-alone function call
    ret               \* its result

vars == <<pc, read, buffer, brace_balance, in_json, potential_title,
          records_created, lines_read, files, log, closed, opened, arg, ret>>

procVars == <<read, buffer, brace_balance, in_json, potential_title,
              records_created, lines_read, files, log, closed, opened>>

----------------------------------------------------------------------------
(* Characters and generic text helpers                                     *)

Q  == "\""
BS == "\\"
LB == "{"
RB == "}"
NL == "\n"
SP == " "

\* characters str.strip() removes (those that occur in the modelled text)
Whitespace == {SP, NL, "\t", "\r"}

\* s.count(c), for a single character c
Count(s, c) == Cardinality({i \in 1..Len(s) : s[i] = c})

Contains(s, c) == \E i \in 1..Len(s) : s[i] = c

RECURSIVE LStrip(_)
LStrip(s) ==
    IF s # <<>> /\ Head(s) \in Whitespace THEN LStrip(Tail(s)) ELSE s

RECURSIVE RStrip(_)
RStrip(s) ==
    IF s # <<>> /\ s[Len(s)] \in Whitespace
    THEN RStrip(SubSeq(s, 1, Len(s) - 1)) ELSE s

Strip(s) == RStrip(LStrip(s))

RECURSIVE Join(_)
Join(ls) == IF ls = <<>> THEN <<>> ELSE Head(ls) \o Join(Tail(ls))

----------------------------------------------------------------------------
(* count_braces_ignoring_strings                                           *)

\* line.replace('\\"', ''): every two-character sequence \" is removed,
\* left to right, without rescanning what the removal joins
\* index of the first sequence \" of s, 0 when there is none
FirstEscapedQuote(s) ==
    IF \E i \in 1..(Len(s) - 1) : s[i] = BS /\ s[i + 1] = Q
    THEN CHOOSE i \in 1..(Len(s) - 1) :
             /\ s[i] = BS /\ s[i + 1] = Q
             /\ \A j \in 1..(i - 1) : ~(s[j] = BS /\ s[j + 1] = Q)
    ELSE 0

RECURSIVE RemoveEscapedQuotes(_)
RemoveEscapedQuotes(s) ==
    LET i == FirstEscapedQuote(s) IN
    IF i = 0 THEN s
    ELSE SubSeq(s, 1, i - 1) \o RemoveEscapedQuotes(SubSeq(s, i + 2, Len(s)))

\* index of the first double quote of s, 0 when there is none
FirstQuote(s) ==
    IF Contains(s, Q)
    THEN CHOOSE i \in 1..Len(s) : s[i] = Q /\ \A j \in 1..(i-1) : s[j] # Q
    ELSE 0

\* re.sub(r'"[^"]*"', '', clean): leftmost matches, each from a quote to
\* the next quote; a last quote without a partner matches nothing
RECURSIVE RemoveQuoted(_)
RemoveQuoted(s) ==
    LET i == FirstQuote(s) IN
    IF i = 0 THEN s
    ELSE LET rest == SubSeq(s, i + 1, Len(s))
             j    == FirstQuote(rest)
         IN IF j = 0 THEN s
            ELSE SubSeq(s, 1, i - 1) \o RemoveQuoted(SubSeq(rest, j + 1, Len(rest)))

CleanedLine(line) == RemoveQuoted(RemoveEscapedQuotes(line))

\* count_braces_ignoring_strings without the removal of escaped quotes
count_braces_KeepsEscapes(line) ==
    LET clean == RemoveQuoted(line) IN
    [net_change |-> Count(clean, LB) - Count(clean, RB),
     has_open   |-> Contains(clean, LB)]

count_braces_ignoring_strings(line) ==
    LET clean == CleanedLine(line) IN
    [net_change |-> Count(clean, LB) - Count(clean, RB),
     has_open   |-> Contains(clean, LB)]

----------------------------------------------------------------------------
(* clean_filename                                                          *)

Letters == {"a","b","c","d","e","f","g","h","i","j","k","l","m",
            "n","o","p","q","r","s","t","u","v","w","x","y","z",
            "A","B","C","D","E","F","G","H","I","J","K","L","M",
            "N","O","P","Q","R","S","T","U","V","W","X","Y","Z"}
Digits  == {"0","1","2","3","4","5","6","7","8","9"}

\* the characters the class [\w\s-] accepts
KeptChars == Letters \cup Digits \cup {"_"} \cup Whitespace \cup {"-"}

Untitled == <<"U","n","t","i","t","l","e","d">>

MaxNameLen == 100

\* re.sub(r'[^\w\s-]', '', text)
KeptChar(c) == c \in KeptChars

Sanitize(s) == SelectSeq(s, KeptChar)

Truncate(s, n) == SubSeq(s, 1, IF Len(s) < n THEN Len(s) ELSE n)

clean_filename(text) ==
    IF text = <<>> THEN Untitled
    ELSE Truncate(Strip(Sanitize(text)), MaxNameLen)

----------------------------------------------------------------------------
(* json.loads, on the JSON grammar of the standard library decoder         *)

JsonWs == {SP, "\t", NL, "\r"}

\* characters below 0x20, which the strict decoder rejects inside a string
ControlChars == {NL, "\t", "\r", "\f", "\\b"}

HexDigits == Digits \cup {"a","b","c","d","e","f","A","B","C","D","E","F"}

JNull      == [t |-> "null"]
JBool(b)   == [t |-> "bool", b |-> b]
JNum(z)    == [t |-> "num", zero |-> z]
JStr(cs)   == [t |-> "str", s |-> cs]
JList(vs)  == [t |-> "list", items |-> vs]
JDict(kvs) == [t |-> "dict", items |-> kvs]

Fail     == [ok |-> FALSE, val |-> JNull, pos |-> 0]
Ok(v, p) == [ok |-> TRUE, val |-> v, pos |-> p]

At(s, i) == IF i >= 1 /\ i <= Len(s) THEN s[i] ELSE ""

StartsWithAt(s, i, w) ==
    /\ i + Len(w) - 1 <= Len(s)
    /\ \A k \in 1..Len(w) : s[i + k - 1] = w[k]

RECURSIVE SkipWs(_, _)
SkipWs(s, i) == IF At(s, i) \in JsonWs THEN SkipWs(s, i + 1) ELSE i

RECURSIVE SkipDigits(_, _)
SkipDigits(s, i) == IF At(s, i) \in Digits THEN SkipDigits(s, i + 1) ELSE i

Unescape(c) ==
    CASE c = "n" -> NL
      [] c = "t" -> "\t"
      [] c = "r" -> "\r"
      [] c = "f" -> "\f"
      [] c = "b" -> "\\b"
      [] OTHER   -> c

\* py_scanstring: i is the index after the opening quote
RECURSIVE ScanString(_, _, _)
ScanString(s, i, acc) ==
    LET c == At(s, i) IN
    IF c = "" THEN Fail
    ELSE IF c = Q THEN Ok(JStr(acc), i + 1)
    ELSE IF c = BS THEN
        LET e == At(s, i + 1) IN
        IF e \in {Q, BS, "/", "b", "f", "n", "r", "t"}
        THEN ScanString(s, i + 2, Append(acc, Unescape(e)))
        ELSE IF e = "u" /\ \A k \in 2..5 : At(s, i + k) \in HexDigits
        THEN ScanString(s, i + 6, Append(acc, "\\u"))
        ELSE Fail
    ELSE IF c \in ControlChars THEN Fail
    ELSE ScanString(s, i + 1, Append(acc, c))

\* NUMBER_RE: (-?(?:0|[1-9]\d*))(\.\d+)?([eE][-+]?\d+)?
ScanNumber(s, i) ==
    LET d0   == IF At(s, i) = "-" THEN i + 1 ELSE i
        iEnd == IF At(s, d0) = "0" THEN d0 + 1
                ELSE IF At(s, d0) \in Digits THEN SkipDigits(s, d0)
                ELSE 0
        fEnd == IF iEnd # 0 /\ At(s, iEnd) = "." /\ At(s, iEnd + 1) \in Digits
                THEN SkipDigits(s, iEnd + 1) ELSE iEnd
        x0   == IF At(s, fEnd + 1) \in {"+", "-"} THEN fEnd + 2 ELSE fEnd + 1
        xEnd == IF fEnd # 0 /\ At(s, fEnd) \in {"e", "E"} /\ At(s, x0) \in Digits
                THEN SkipDigits(s, x0) ELSE fEnd
    IN IF iEnd = 0 THEN Fail
       ELSE Ok(JNum(\A k \in d0..(fEnd - 1) : s[k] \in {"0", "."}), xEnd)

RECURSIVE ParseValue(_, _)
RECURSIVE ParseMembers(_, _, _)
RECURSIVE ParseElements(_, _, _)

\* JSONObject: i is the index after the opening brace
ParseObject(s, i) ==
    LET j == SkipWs(s, i) IN
    IF At(s, j) = RB THEN Ok(JDict(<<>>), j + 1)
    ELSE ParseMembers(s, j, <<>>)

\* JSONArray: i is the index after the opening bracket
ParseArray(s, i) ==
    LET j == SkipWs(s, i) IN
    IF At(s, j) = "]" THEN Ok(JList(<<>>), j + 1)
    ELSE ParseElements(s, j, <<>>)

\* scan_once
ParseValue(s, i) ==
    LET c == At(s, i) IN
    IF c = Q THEN ScanString(s, i + 1, <<>>)
    ELSE IF c = LB THEN ParseObject(s, i + 1)
    ELSE IF c = "[" THEN ParseArray(s, i + 1)
    ELSE IF StartsWithAt(s, i, <<"n","u","l","l">>) THEN Ok(JNull, i + 4)
    ELSE IF StartsWithAt(s, i, <<"t","r","u","e">>) THEN Ok(JBool(TRUE), i + 4)
    ELSE IF StartsWithAt(s, i, <<"f","a","l","s","e">>) THEN Ok(JBool(FALSE), i + 5)
    ELSE IF ScanNumber(s, i).ok THEN ScanNumber(s, i)
    ELSE IF StartsWithAt(s, i, <<"N","a","N">>) THEN Ok(JNum(FALSE), i + 3)
    ELSE IF StartsWithAt(s, i, <<"I","n","f","i","n","i","t","y">>)
         THEN Ok(JNum(FALSE), i + 8)
    ELSE IF StartsWithAt(s, i, <<"-","I","n","f","i","n","i","t","y">>)
         THEN Ok(JNum(FALSE), i + 9)
    ELSE Fail

\* one "key": value pair and what follows it; j is where the key's quote must be
ParseMembers(s, j, acc) ==
    IF At(s, j) # Q THEN Fail
    ELSE LET key == ScanString(s, j + 1, <<>>) IN
         IF ~key.ok THEN Fail
         ELSE LET k == SkipWs(s, key.pos) IN
              IF At(s, k) # ":" THEN Fail
              ELSE LET v == ParseValue(s, SkipWs(s, k + 1)) IN
                   IF ~v.ok THEN Fail
                   ELSE LET m   == SkipWs(s, v.pos)
                            kvs == Append(acc, [k |-> key.val.s, v |-> v.val])
                        IN IF At(s, m) = RB THEN Ok(JDict(kvs), m + 1)
                           ELSE IF At(s, m) = ","
                                THEN ParseMembers(s, SkipWs(s, m + 1), kvs)
                                ELSE Fail

\* one array element and what follows it
ParseElements(s, j, acc) ==
    LET v == ParseValue(s, j) IN
    IF ~v.ok THEN Fail
    ELSE LET m  == SkipWs(s, v.pos)
             vs == Append(acc, v.val)
         IN IF At(s, m) = "]" THEN Ok(JList(vs), m + 1)
            ELSE IF At(s, m) = ","
                 THEN ParseElements(s, SkipWs(s, m + 1), vs)
                 ELSE Fail

\* json.loads: [ok |-> FALSE] stands for json.JSONDecodeError
json_loads(s) ==
    LET r == ParseValue(s, SkipWs(s, 1)) IN
    IF r.ok /\ SkipWs(s, r.pos) = Len(s) + 1
    THEN [ok |-> TRUE, val |-> r.val]
    ELSE [ok |-> FALSE, val |-> JNull]

----------------------------------------------------------------------------
(* is_valid_record                                                         *)

KeyName      == <<"n","a","m","e">>
KeyCompany   == <<"c","o","m","p","a","n","y">>
KeyQuestions == <<"q","u","e","s","t","i","o","n","s">>

\* key in data
HasKey(d, key) == \E i \in 1..Len(d.items) : d.items[i].k = key

\* data[key]: the decoder keeps the last value of a repeated key
GetKey(d, key) ==
    LET i == CHOOSE i \in 1..Len(d.items) :
                 /\ d.items[i].k = key
                 /\ \A j \in (i+1)..Len(d.items) : d.items[j].k # key
    IN d.items[i].v

\* bool(value)
Truthy(v) ==
    CASE v.t = "dict" -> v.items # <<>>
      [] v.t = "list" -> v.items # <<>>
      [] v.t = "str"  -> v.s # <<>>
      [] v.t = "num"  -> ~v.zero
      [] v.t = "bool" -> v.b
      [] OTHER        -> FALSE

\* the types len() accepts
HasLen(v) == v.t \in {"dict", "list", "str"}

\* len(value) > 0, for a value that has a length
LenPositive(v) == IF v.t = "str" THEN v.s # <<>> ELSE v.items # <<>>

\* is_valid_record with `or` between has_company and has_questions
is_valid_record_Or(data) ==
    IF data.t # "dict" THEN [exc |-> "none", val |-> FALSE]
    ELSE IF data.items = <<>> THEN [exc |-> "none", val |-> FALSE]
    ELSE LET has_name    == HasKey(data, KeyName) /\ Truthy(GetKey(data, KeyName))
             has_company == HasKey(data, KeyCompany)
             qs_present  == HasKey(data, KeyQuestions)
         IN IF qs_present /\ ~HasLen(GetKey(data, KeyQuestions))
            THEN [exc |-> "TypeError", val |-> FALSE]
            ELSE LET has_questions ==
                         qs_present /\ LenPositive(GetKey(data, KeyQuestions))
                 IN [exc |-> "none",
                     val |-> has_name \/ (has_company \/ has_questions)]

\* exc = "TypeError" when len() is applied to a value without a length
is_valid_record(data) ==
    IF data.t # "dict" THEN [exc |-> "none", val |-> FALSE]
    ELSE IF data.items = <<>> THEN [exc |-> "none", val |-> FALSE]
    ELSE LET has_name    == HasKey(data, KeyName) /\ Truthy(GetKey(data, KeyName))
             has_company == HasKey(data, KeyCompany)
             qs_present  == HasKey(data, KeyQuestions)
         IN IF qs_present /\ ~HasLen(GetKey(data, KeyQuestions))
            THEN [exc |-> "TypeError", val |-> FALSE]
            ELSE LET has_questions ==
                         qs_present /\ LenPositive(GetKey(data, KeyQuestions))
                 IN [exc |-> "none",
                     val |-> has_name \/ (has_company /\ has_questions)]

----------------------------------------------------------------------------
(* The input lines and the bounds of the model                             *)

MaxLines == 5       \* lines the file yields before the model stops reading

LBlank      == <<NL>>
LTitleA     == <<"A", NL>>
LOpen       == <<LB, NL>>
LClose      == <<RB, NL>>
LCloseComma == <<RB, ",", NL>>
LName       == <<Q,"n","a","m","e",Q,":",SP,Q,"X",Q, NL>>
LQNull      == <<Q,"q","u","e","s","t","i","o","n","s",Q,":",SP,"n","u","l","l", NL>>
LObject     == <<LB,Q,"n","a","m","e",Q,":",SP,Q,"X",Q,RB, NL>>
LOpenName   == <<LB,Q,"n","a","m","e",Q,":",SP,Q,"X",Q, NL>>

Lines == {LBlank, LTitleA, LOpen, LClose, LCloseComma, LName, LQNull,
          LObject, LOpenName}

\* header lines of 149 and of 150 characters, and a line whose only brace
\* stands inside a quoted string
LTitle149   == [i \in 1..150 |-> IF i = 150 THEN NL ELSE "a"]
LTitle150   == [i \in 1..151 |-> IF i = 151 THEN NL ELSE "a"]
LQuotedOpen == <<Q, LB, Q, NL>>

\* the lines of the runs that look at the header test
HeaderLines == {LBlank, LTitle149, LTitle150, LQuotedOpen, LOpen, LClose,
                LQNull, LOpenName}

MaxScanLen  == 5    \* length of the lines given to the scanner alone
MaxTitleLen == 3    \* length of the titles given to clean_filename alone

SeqsUpTo(S, n) == UNION {[1..k -> S] : k \in 0..n}

\* the line {"a": "b{c}d"}
LQuotedBraces == <<LB,Q,"a",Q,":",SP,Q,"b",LB,"c",RB,"d",Q,RB>>

ScanChars  == {LB, RB, Q, BS, "a"}
ScanInputs == SeqsUpTo(ScanChars, MaxScanLen) \cup {LQuotedBraces}

TitleChars  == {"a", "_", "1", SP, "-", "!"}
TitleInputs == SeqsUpTo(TitleChars, MaxTitleLen)

\* decoded values given to is_valid_record alone
NameValues      == {JStr(<<>>), JStr(<<"X">>), JNull, JNum(TRUE), JNum(FALSE)}
CompanyValues   == {JDict(<<>>), JNull}
QuestionsValues == {JList(<<>>), JList(<<JDict(<<>>)>>), JNull, JNum(FALSE),
                    JStr(<<>>), JStr(<<"s">>), JDict(<<>>)}
Absent == [t |-> "absent"]

Member(key, v) == IF v = Absent THEN <<>> ELSE <<[k |-> key, v |-> v]>>

DictOf(n, c, q, other) ==
    JDict(Member(KeyName, n) \o Member(KeyCompany, c) \o Member(KeyQuestions, q)
          \o Member(<<"i","d">>, other))

RecordInputs ==
    {DictOf(n, c, q, other) :
        n \in NameValues \cup {Absent}, c \in CompanyValues \cup {Absent},
        q \in QuestionsValues \cup {Absent}, other \in {Absent, JNum(FALSE)}}
    \cup {JList(<<JDict(<<>>)>>), JList(<<>>), JStr(<<"X">>), JNum(FALSE), JNull}

----------------------------------------------------------------------------
(* process_file                                                            *)

TitleLimit == 150
ProgressEvery == 10

PdfExt == <<".","p","d","f">>

DigitChar(d) ==
    CASE d = 0 -> "0" [] d = 1 -> "1" [] d = 2 -> "2" [] d = 3 -> "3"
      [] d = 4 -> "4" [] d = 5 -> "5" [] d = 6 -> "6" [] d = 7 -> "7"
      [] d = 8 -> "8" [] OTHER -> "9"

\* str(count), count >= 0
RECURSIVE ToStr(_)
ToStr(n) == IF n < 10 THEN <<DigitChar(n)>>
            ELSE ToStr(n \div 10) \o <<DigitChar(n % 10)>>

NumberedName(safe_name, count) == safe_name \o <<"_">> \o ToStr(count) \o PdfExt

\* the while loop over os.path.exists: fs is the set of existing names
RECURSIVE Probe(_, _, _, _)
Probe(fs, safe_name, fname, count) ==
    IF fname \in fs
    THEN Probe(fs, safe_name, NumberedName(safe_name, count), count + 1)
    ELSE fname

\* AllocateName without the duplicate loop
AllocateName_NoProbe(fs, safe_name) == safe_name \o PdfExt

AllocateName(fs, safe_name) == Probe(fs, safe_name, safe_name \o PdfExt, 1)

\* "".join(buffer).strip(), less one trailing comma
FullStr(buf) ==
    LET joined == Strip(Join(buf)) IN
    IF joined # <<>> /\ joined[Len(joined)] = ","
    THEN SubSeq(joined, 1, Len(joined) - 1)
    ELSE joined

\* IsTitle with the length test off by one
IsTitle_Inclusive(stripped) ==
    /\ ~Contains(stripped, LB)
    /\ ~Contains(stripped, RB)
    /\ Len(stripped) <= TitleLimit

\* the test of the header/title branch
IsTitle(stripped) ==
    /\ ~Contains(stripped, LB)
    /\ ~Contains(stripped, RB)
    /\ Len(stripped) < TitleLimit

\* generate_pdf: whether it returns True, and whether a file is left behind
\* when it returns False, is up to the rendering library and the file system
RenderOutcomes == {"rendered", "render_failed", "render_failed_partial"}

LogLevel(kind) ==
    CASE kind \in {"start", "progress", "done"} -> "INFO"
      [] kind = "fragment"                       -> "WARNING"
      [] OTHER                                   -> "ERROR"

Init ==
    /\ pc = "loop"
    /\ read = <<>>
    /\ buffer = <<>>
    /\ brace_balance = 0
    /\ in_json = FALSE
    /\ potential_title = Untitled
    /\ records_created = 0
    /\ lines_read = 0
    /\ files = {}
    /\ log = <<"start">>
    /\ closed = <<>>
    /\ opened = [line |-> 0, title |-> Untitled]
    /\ arg = <<>>
    /\ ret = <<>>

\* what every iteration of the for loop does first
Fetch(line) ==
    /\ pc = "loop"
    /\ lines_read < MaxLines
    /\ lines_read' = lines_read + 1
    /\ read' = Append(read, line)
    /\ UNCHANGED <<arg, ret>>

\* if not stripped: continue
ReadBlank(line) ==
    /\ Fetch(line)
    /\ Strip(line) = <<>>
    /\ UNCHANGED <<pc, buffer, brace_balance, in_json, potential_title,
                   records_created, files, log, closed, opened>>

\* IdleOpen without `brace_balance = 0`
IdleOpen_KeepsBalance(line) ==
    /\ Fetch(line)
    /\ Strip(line) # <<>>
    /\ ~in_json
    /\ count_braces_ignoring_strings(line).has_open
    /\ in_json' = TRUE
    /\ buffer' = <<line>>
    /\ brace_balance' = brace_balance + count_braces_ignoring_strings(line).net_change
    /\ opened' = [line |-> lines_read + 1, title |-> potential_title]
    /\ UNCHANGED <<pc, potential_title, records_created, files, log, closed>>

\* IdleOpen without `buffer = []`
IdleOpen_KeepsBuffer(line) ==
    /\ Fetch(line)
    /\ Strip(line) # <<>>
    /\ ~in_json
    /\ count_braces_ignoring_strings(line).has_open
    /\ in_json' = TRUE
    /\ buffer' = Append(buffer, line)
    /\ brace_balance' = 0 + count_braces_ignoring_strings(line).net_change
    /\ opened' = [line |-> lines_read + 1, title |-> potential_title]
    /\ UNCHANGED <<pc, potential_title, records_created, files, log, closed>>

\* not in_json, has_open
IdleOpen(line) ==
    /\ Fetch(line)
    /\ Strip(line) # <<>>
    /\ ~in_json
    /\ count_braces_ignoring_strings(line).has_open
    /\ in_json' = TRUE
    /\ buffer' = <<line>>
    /\ brace_balance' = 0 + count_braces_ignoring_strings(line).net_change
    /\ opened' = [line |-> lines_read + 1, title |-> potential_title]
    /\ UNCHANGED <<pc, potential_title, records_created, files, log, closed>>

\* not in_json, no opening brace: a header line, or noise
IdleHeader(line) ==
    /\ Fetch(line)
    /\ Strip(line) # <<>>
    /\ ~in_json
    /\ ~count_braces_ignoring_strings(line).has_open
    /\ potential_title' = IF IsTitle(Strip(line)) THEN Strip(line)
                          ELSE potential_title
    /\ UNCHANGED <<pc, buffer, brace_balance, in_json,
                   records_created, files, log, closed, opened>>

\* Accumulate with the trimmed line appended in place of the line
Accumulate_AppendsStripped(line) ==
    /\ Fetch(line)
    /\ Strip(line) # <<>>
    /\ in_json
    /\ brace_balance + count_braces_ignoring_strings(line).net_change > 0
    /\ buffer' = Append(buffer, Strip(line))
    /\ brace_balance' = brace_balance + count_braces_ignoring_strings(line).net_change
    /\ UNCHANGED <<pc, in_json, potential_title, records_created, files,
                   log, closed, opened>>

\* Accumulate with the title test applied to the lines of an object too
Accumulate_TakesTitle(line) ==
    /\ Fetch(line)
    /\ Strip(line) # <<>>
    /\ in_json
    /\ brace_balance + count_braces_ignoring_strings(line).net_change > 0
    /\ buffer' = Append(buffer, line)
    /\ brace_balance' = brace_balance + count_braces_ignoring_strings(line).net_change
    /\ potential_title' = IF IsTitle(Strip(line)) THEN Strip(line)
                          ELSE potential_title
    /\ UNCHANGED <<pc, in_json, records_created, files, log, closed, opened>>

\* in_json, and the balance stays above zero
Accumulate(line) ==
    /\ Fetch(line)
    /\ Strip(line) # <<>>
    /\ in_json
    /\ brace_balance + count_braces_ignoring_strings(line).net_change > 0
    /\ buffer' = Append(buffer, line)
    /\ brace_balance' = brace_balance + count_braces_ignoring_strings(line).net_change
    /\ UNCHANGED <<pc, in_json, potential_title, records_created, files,
                   log, closed, opened>>

\* in_json, and the balance reaches zero or less: the common part
Closing(line) ==
    /\ Fetch(line)
    /\ Strip(line) # <<>>
    /\ in_json
    /\ brace_balance + count_braces_ignoring_strings(line).net_change <= 0
    /\ buffer' = Append(buffer, line)
    /\ brace_balance' = brace_balance + count_braces_ignoring_strings(line).net_change
    /\ in_json' = FALSE
    /\ UNCHANGED opened

Entry(line, outcome, fname, existed) ==
    [first   |-> opened.line,
     line    |-> lines_read + 1,
     title   |-> potential_title,
     title_at_open |-> opened.title,
     text    |-> FullStr(Append(buffer, line)),
     outcome |-> outcome,
     fname   |-> fname,
     existed |-> existed]

\* CloseDecodeError with the title reset left inside the try block
CloseDecodeError_KeepsTitle(line) ==
    /\ Closing(line)
    /\ ~json_loads(FullStr(Append(buffer, line))).ok
    /\ log' = Append(log, "parse_error")
    /\ closed' = Append(closed, Entry(line, "decode_error", <<>>, FALSE))
    /\ UNCHANGED <<pc, potential_title, records_created, files>>

\* json.loads raises JSONDecodeError
CloseDecodeError(line) ==
    /\ Closing(line)
    /\ ~json_loads(FullStr(Append(buffer, line))).ok
    /\ log' = Append(log, "parse_error")
    /\ closed' = Append(closed, Entry(line, "decode_error", <<>>, FALSE))
    /\ potential_title' = Untitled
    /\ UNCHANGED <<pc, records_created, files>>

\* is_valid_record raises TypeError, which no handler of process_file catches
CloseRaise(line) ==
    LET d == json_loads(FullStr(Append(buffer, line))) IN
    /\ Closing(line)
    /\ d.ok
    /\ is_valid_record(d.val).exc # "none"
    /\ pc' = "raised"
    /\ closed' = Append(closed, Entry(line, "raised", <<>>, FALSE))
    /\ UNCHANGED <<potential_title, records_created, files, log>>

\* is_valid_record returns False
CloseRejected(line) ==
    LET d == json_loads(FullStr(Append(buffer, line))) IN
    /\ Closing(line)
    /\ d.ok
    /\ is_valid_record(d.val).exc = "none"
    /\ ~is_valid_record(d.val).val
    /\ log' = Append(log, "fragment")
    /\ closed' = Append(closed, Entry(line, "rejected", <<>>, FALSE))
    /\ potential_title' = Untitled
    /\ UNCHANGED <<pc, records_created, files>>

\* CloseRender with the counter raised whatever generate_pdf returns
CloseRender_CountsFailures(line, outcome) ==
    LET d     == json_loads(FullStr(Append(buffer, line)))
        fname == AllocateName(files, clean_filename(potential_title))
    IN
    /\ Closing(line)
    /\ d.ok
    /\ is_valid_record(d.val).exc = "none"
    /\ is_valid_record(d.val).val
    /\ closed' = Append(closed, Entry(line, outcome, fname, fname \in files))
    /\ files' = IF outcome = "render_failed" THEN files ELSE files \cup {fname}
    /\ records_created' = records_created + 1
    /\ log' = IF outcome = "rendered"
              THEN (IF (records_created + 1) % ProgressEvery = 0
                    THEN Append(log, "progress") ELSE log)
              ELSE Append(log, "pdf_failed")
    /\ potential_title' = Untitled
    /\ UNCHANGED pc

\* is_valid_record returns True: allocate the name, call generate_pdf
CloseRender(line, outcome) ==
    LET d     == json_loads(FullStr(Append(buffer, line)))
        fname == AllocateName(files, clean_filename(potential_title))
    IN
    /\ Closing(line)
    /\ d.ok
    /\ is_valid_record(d.val).exc = "none"
    /\ is_valid_record(d.val).val
    /\ closed' = Append(closed, Entry(line, outcome, fname, fname \in files))
    /\ files' = IF outcome = "render_failed" THEN files ELSE files \cup {fname}
    /\ records_created' = IF outcome = "rendered" THEN records_created + 1
                          ELSE records_created
    /\ log' = IF outcome = "rendered"
              THEN (IF (records_created + 1) % ProgressEvery = 0
                    THEN Append(log, "progress") ELSE log)
              ELSE Append(log, "pdf_failed")
    /\ potential_title' = Untitled
    /\ UNCHANGED pc

\* EndOfInput with an error logged for a buffer that is still open
EndOfInput_ReportsOpenBuffer ==
    /\ pc = "loop"
    /\ pc' = "done"
    /\ log' = IF in_json THEN log \o <<"parse_error", "done">>
              ELSE Append(log, "done")
    /\ UNCHANGED <<read, buffer, brace_balance, in_json, potential_title,
                   records_created, lines_read, files, closed, opened,
                   arg, ret>>

\* the file iterator is exhausted: the summary line, and process_file returns
EndOfInput ==
    /\ pc = "loop"
    /\ pc' = "done"
    /\ log' = Append(log, "done")
    /\ UNCHANGED <<read, buffer, brace_balance, in_json, potential_title,
                   records_created, lines_read, files, closed, opened,
                   arg, ret>>

Next ==
    \/ \E line \in Lines : ReadBlank(line)
    \/ \E line \in Lines : IdleOpen(line)
    \/ \E line \in Lines : IdleHeader(line)
    \/ \E line \in Lines : Accumulate(line)
    \/ \E line \in Lines : CloseDecodeError(line)
    \/ \E line \in Lines : CloseRaise(line)
    \/ \E line \in Lines : CloseRejected(line)
    \/ \E line \in Lines, outcome \in RenderOutcomes : CloseRender(line, outcome)
    \/ EndOfInput

Spec == Init /\ [][Next]_vars

\* the same loop, reading the header lines
NextHeader ==
    \/ \E line \in HeaderLines : ReadBlank(line)
    \/ \E line \in HeaderLines : IdleOpen(line)
    \/ \E line \in HeaderLines : IdleHeader(line)
    \/ \E line \in HeaderLines : Accumulate(line)
    \/ \E line \in HeaderLines : CloseDecodeError(line)
    \/ \E line \in HeaderLines : CloseRaise(line)
    \/ \E line \in HeaderLines : CloseRejected(line)
    \/ \E line \in HeaderLines, outcome \in RenderOutcomes : CloseRender(line, outcome)
    \/ EndOfInput

SpecHeader == Init /\ [][NextHeader]_vars

----------------------------------------------------------------------------
(* The three helpers called on their own                                   *)

InitCall(inputs) ==
    /\ pc = "call"
    /\ arg \in inputs
    /\ ret = <<>>
    /\ read = <<>>
    /\ buffer = <<>>
    /\ brace_balance = 0
    /\ in_json = FALSE
    /\ potential_title = Untitled
    /\ records_created = 0
    /\ lines_read = 0
    /\ files = {}
    /\ log = <<>>
    /\ closed = <<>>
    /\ opened = [line |-> 0, title |-> Untitled]

CallScan ==
    /\ pc = "call"
    /\ ret' = count_braces_ignoring_strings(arg)
    /\ pc' = "return"
    /\ UNCHANGED <<arg, procVars>>

CallValid ==
    /\ pc = "call"
    /\ ret' = is_valid_record(arg)
    /\ pc' = "return"
    /\ UNCHANGED <<arg, procVars>>

CallClean ==
    /\ pc = "call"
    /\ ret' = clean_filename(arg)
    /\ pc' = "return"
    /\ UNCHANGED <<arg, procVars>>

SpecScan  == InitCall(ScanInputs) /\ [][CallScan]_vars
SpecValid == InitCall(RecordInputs) /\ [][CallValid]_vars
SpecClean == InitCall(TitleInputs) /\ [][CallClean]_vars

----------------------------------------------------------------------------
(* Properties                                                              *)

\* the line most recently yielded by the file iterator, in the next state
LineJustRead == read'[Len(read')]

\* a non-blank line whose cleaned text holds an opening brace and whose net
\* brace delta is zero or less
OpensAndBalances(line) ==
    /\ Strip(line) # <<>>
    /\ count_braces_ignoring_strings(line).has_open
    /\ count_braces_ignoring_strings(line).net_change <= 0

\* C1: a candidate is finalized the first time its balance is <= 0,
\* the opening line included: a non-blank line read in IDLE whose cleaned
\* text holds '{' and whose net delta is <= 0 leaves the extractor in IDLE
\* after that same line, and the decoder was handed that line alone.
C1_ClosesOnOpeningLine ==
    [][ ( /\ pc = "loop"
          /\ ~in_json
          /\ lines_read' = lines_read + 1
          /\ OpensAndBalances(LineJustRead) )
        => ( /\ ~in_json'
             /\ Len(closed') = Len(closed) + 1
             /\ closed'[Len(closed')].text = FullStr(<<LineJustRead>>) ) ]_vars

\* a line that the IDLE extractor takes as a title
IsTitleLine(line) ==
    /\ Strip(line) # <<>>
    /\ ~count_braces_ignoring_strings(line).has_open
    /\ IsTitle(Strip(line))

\* a line that holds one complete object which is_valid_record accepts
IsValidObjectLine(line) ==
    /\ OpensAndBalances(line)
    /\ json_loads(Strip(line)).ok
    /\ is_valid_record(json_loads(Strip(line)).val).exc = "none"
    /\ is_valid_record(json_loads(Strip(line)).val).val

\* the input is: a title line, a line holding a complete valid object, then
\* one or more blank lines and nothing else
TitleObjectBlanks ==
    /\ Len(read) >= 3
    /\ IsTitleLine(read[1])
    /\ IsValidObjectLine(read[2])
    /\ \A i \in 3..Len(read) : Strip(read[i]) = <<>>

\* C2: for an input made of a title line T, a line holding a complete
\* valid object and then only blank lines, process_file has emitted, when
\* it returns, exactly one record, bound to T, with a true verdict.
C2_OneRecordForTitleAndObject ==
    (pc = "done" /\ TitleObjectBlanks)
    => ( /\ Len(closed) = 1
         /\ closed[1].title = Strip(read[1])
         /\ closed[1].outcome \in RenderOutcomes )

\* C3: no per-record failure aborts the run: whatever a closed
\* buffer decodes to, no exception leaves the per-record step.
C3_NoExceptionEscapes == pc # "raised"

----------------------------------------------------------------------------
(* What the finalized candidates say about the run                         *)

Rendering(e) == e.outcome \in RenderOutcomes

\* the files the first n finalized candidates left in the output directory
FilesLeftBy(n) ==
    {closed[j].fname :
        j \in {j \in 1..n : closed[j].outcome \in {"rendered", "render_failed_partial"}}}

Rendered == {j \in 1..Len(closed) : closed[j].outcome = "rendered"}

\* in_json was false when line number p was fetched
IdleBefore(p) ==
    /\ \A j \in 1..Len(closed) : ~(closed[j].first < p /\ p <= closed[j].line)
    /\ ~(in_json /\ opened.line < p)

\* lines p..q of the input are a well-formed object over more than one line
\* that is_valid_record accepts
IsRecordAt(p, q) ==
    /\ p < q
    /\ q <= Len(read)
    /\ Strip(read[p]) # <<>>
    /\ Strip(read[q]) # <<>>
    /\ LET v == json_loads(FullStr(SubSeq(read, p, q))) IN
       /\ v.ok
       /\ v.val.t = "dict"
       /\ is_valid_record(v.val).exc = "none"
       /\ is_valid_record(v.val).val

----------------------------------------------------------------------------
(* is_valid_record and count_braces_ignoring_strings on their own          *)

NameX     == JStr(<<"X">>)
NameEmpty == JStr(<<>>)
NoEntries == JList(<<>>)
OneEntry  == JList(<<JDict(<<>>)>>)
Company   == JDict(<<>>)

\* C5: is_valid_record is true iff the value is a non-empty mapping
\* and (it has a non-empty name, or it has a company key together with a
\* non-empty questions sequence), for name absent, empty or non-empty,
\* company absent or present, questions absent, [] or non-empty; false for
\* {} and {company, questions: []}, true for {company, questions: [entry]}.
C5_ValidIffNameOrCompanyWithQuestions ==
    pc = "return" =>
        /\ \A n \in {Absent, NameEmpty, NameX}, c \in {Absent, Company},
              q \in {Absent, NoEntries, OneEntry}, other \in {Absent, JNum(FALSE)} :
               arg = DictOf(n, c, q, other) =>
                   /\ ret.exc = "none"
                   /\ ret.val <=>
                        /\ <<n, c, q, other>> # <<Absent, Absent, Absent, Absent>>
                        /\ (n = NameX \/ (c # Absent /\ q = OneEntry))
        /\ arg = JDict(<<>>) => ~ret.val
        /\ arg = DictOf(Absent, Company, NoEntries, Absent) => ~ret.val
        /\ arg = DictOf(Absent, Company, OneEntry, Absent) => ret.val

C5_Witness ==
    /\ pc = "return"
    /\ arg = DictOf(Absent, Company, OneEntry, Absent)
    /\ ret.val

\* a double quote that no backslash precedes
Unescaped(s, i) == s[i] = Q /\ (i = 1 \/ s[i - 1] # BS)

\* position i lies inside a span that runs from an unescaped quote to the
\* next unescaped quote
InQuotedSpan(s, i) ==
    /\ Cardinality({j \in 1..(i - 1) : Unescaped(s, j)}) % 2 = 1
    /\ \E j \in (i + 1)..Len(s) : Unescaped(s, j)

Outside(s, c) == {i \in 1..Len(s) : s[i] = c /\ ~InQuotedSpan(s, i)}

\* C6: count_braces_ignoring_strings counts no brace inside a quoted
\* span: the net delta is the number of '{' less the number of '}' outside
\* the spans from an unescaped '"' to the next unescaped '"' (a quote being
\* escaped when a backslash stands right before it), has_open says whether
\* some '{' lies outside them, and {"a": "b{c}d"} gives has_open, delta 0.
C6_QuotedBracesNotCounted ==
    pc = "return" =>
        /\ ret.net_change = Cardinality(Outside(arg, LB)) - Cardinality(Outside(arg, RB))
        /\ ret.has_open <=> Outside(arg, LB) # {}
        /\ arg = LQuotedBraces => (ret.has_open /\ ret.net_change = 0)

C6_Witness ==
    /\ pc = "return"
    /\ arg = LQuotedBraces
    /\ ret = [net_change |-> 0, has_open |-> TRUE]

----------------------------------------------------------------------------
(* Filename allocation                                                     *)

SafeName(e) == clean_filename(e.title)

PlainName(base) == base \o PdfExt

\* base.pdf for k = 0, base_k.pdf for k >= 1
NameForCount(base, k) == IF k = 0 THEN PlainName(base) ELSE NumberedName(base, k)

\* f is base.pdf or one of base_1.pdf, base_2.pdf, ...
IsNameOf(base, f) ==
    \/ f = PlainName(base)
    \/ \E n \in 1..(MaxLines + 1) : f = NumberedName(base, n)

\* the earlier candidates with the same sanitized title that were rendered
EarlierSuccesses(i) ==
    {j \in 1..(i - 1) : /\ closed[j].outcome = "rendered"
                        /\ SafeName(closed[j]) = SafeName(closed[i])}

\* C7 as stated: the path given to the renderer does not exist when it
\* is chosen, and after k successful renders of the same sanitized title the
\* next record gets base.pdf for k = 0 and base_k.pdf for k >= 1.
C7_NameCountsEarlierSuccesses ==
    \A i \in 1..Len(closed) :
        Rendering(closed[i]) =>
            /\ ~closed[i].existed
            /\ closed[i].fname
                 = NameForCount(SafeName(closed[i]), Cardinality(EarlierSuccesses(i)))

\* C7, amended: the path given to the renderer does not exist when it
\* is chosen; it is base.pdf when that is free, else base_n.pdf for the least
\* n >= 1 for which base_n.pdf is free; and it is base.pdf for k = 0 and
\* base_k.pdf for k >= 1 whenever the k earlier successful renders of the
\* same sanitized title are the only source of the files named base.pdf or
\* base_j.pdf in the output directory.
C7_NameIsFirstFree ==
    /\ files = FilesLeftBy(Len(closed))
    /\ \A i \in 1..Len(closed) :
        Rendering(closed[i]) =>
            LET fs   == FilesLeftBy(i - 1)
                base == SafeName(closed[i])
                f    == closed[i].fname
            IN /\ ~closed[i].existed
               /\ f \notin fs
               /\ IF PlainName(base) \notin fs THEN f = PlainName(base)
                  ELSE \E n \in 1..(MaxLines + 1) :
                           /\ f = NumberedName(base, n)
                           /\ \A m \in 1..(n - 1) : NumberedName(base, m) \in fs
               /\ ({g \in fs : IsNameOf(base, g)}
                      = {closed[j].fname : j \in EarlierSuccesses(i)})
                  => f = NameForCount(base, Cardinality(EarlierSuccesses(i)))

C7_Witness ==
    \E i \in 1..Len(closed), j \in 1..Len(closed) :
        /\ i < j
        /\ closed[i].outcome = "rendered"
        /\ closed[i].fname = PlainName(Untitled)
        /\ closed[j].outcome = "rendered"
        /\ closed[j].fname = NumberedName(Untitled, 1)
        /\ files = {PlainName(Untitled), NumberedName(Untitled, 1)}

\* C8: clean_filename returns a non-empty string for every title, and
\* "Untitled" when no character of the title survives sanitization and
\* trimming.
C8_FallsBackToUntitled ==
    pc = "return" =>
        /\ ret # <<>>
        /\ (\A i \in 1..Len(arg) : arg[i] \notin (KeptChars \ Whitespace))
               => ret = Untitled

----------------------------------------------------------------------------
(* The pending title                                                       *)

LastClosed == closed[Len(closed)]

\* no line from number a to number b is taken as a title
NoTitleLineIn(a, b) == \A n \in a..b : ~IsTitleLine(read[n])

\* C9: the pending title is "Untitled" after every finalized
\* candidate, whether it was rendered, failed to render, was rejected or
\* failed to decode; a record opened after a finalized candidate with no
\* qualifying title line in between is bound to "Untitled".
C9_TitleResetAfterEveryCandidate ==
    /\ ( /\ closed # <<>>
         /\ LastClosed.line = lines_read
         /\ LastClosed.outcome # "raised" ) => potential_title = Untitled
    /\ \A j \in 2..Len(closed) :
           NoTitleLineIn(closed[j - 1].line + 1, closed[j].first - 1)
               => closed[j].title = Untitled

C9_Witness ==
    /\ Len(closed) = 2
    /\ closed[1].title = Strip(LTitleA)
    /\ closed[1].outcome = "decode_error"
    /\ closed[2].first = closed[1].line + 1
    /\ closed[2].outcome = "rendered"
    /\ closed[2].title = Untitled
    /\ potential_title = Untitled

\* C10: each finalized candidate is bound to the pending title that
\* was in effect when its opening line was read: no line read while
\* ACCUMULATING changes the pending title, also when it would qualify as one.
C10_TitleBoundAtOpen ==
    /\ in_json => potential_title = opened.title
    /\ \A i \in 1..Len(closed) : closed[i].title = closed[i].title_at_open

C10_Witness ==
    \E i \in 1..Len(closed) :
        /\ closed[i].outcome = "rendered"
        /\ closed[i].title = Strip(LTitleA)
        /\ closed[i].fname = PlainName(Strip(LTitleA))
        /\ \E n \in (closed[i].first + 1)..(closed[i].line - 1) : IsTitleLine(read[n])

----------------------------------------------------------------------------
(* The header test                                                         *)

\* C11: in IDLE the pending title changes only on a non-blank line
\* that starts no buffer, holds neither '{' nor '}' after trimming and is
\* shorter than 150 characters after trimming (149 accepted, 150 rejected),
\* and then it becomes the trimmed line; on every other line read in IDLE it
\* keeps its value.
C11_TitleChangesOnlyOnQualifyingLine ==
    [][ ( /\ pc = "loop"
          /\ ~in_json
          /\ lines_read' = lines_read + 1 )
        => LET t == Strip(LineJustRead) IN
           IF /\ t # <<>>
              /\ ~in_json'
              /\ \A i \in 1..Len(t) : t[i] \notin {LB, RB}
              /\ Len(t) <= 149
           THEN potential_title' = t
           ELSE potential_title' = potential_title ]_vars

C11_Witness ==
    /\ Len(read) = 4
    /\ read[1] = LTitle149
    /\ read[2] = LTitle150
    /\ read[3] = LQuotedOpen
    /\ read[4] = LBlank
    /\ ~in_json
    /\ Len(potential_title) = 149
    /\ potential_title = Strip(LTitle149)

----------------------------------------------------------------------------
(* The success counter                                                     *)

\* a candidate was finalized by the step, and this is how it ended
JustClosedAs(outcomes) ==
    /\ Len(closed') = Len(closed) + 1
    /\ closed'[Len(closed')].outcome \in outcomes

\* C12: records_created is the number of candidates that decoded,
\* validated and were rendered with success; it never decreases, it grows by
\* one exactly on a successful render, and a render failure, a validation
\* rejection or a decode failure leaves it unchanged and the run going.
C12_CounterCountsSuccessfulRenders ==
    [][ /\ records_created' = Cardinality({j \in 1..Len(closed') :
                                              closed'[j].outcome = "rendered"})
        /\ records_created' >= records_created
        /\ records_created' # records_created
               <=> JustClosedAs({"rendered"})
        /\ JustClosedAs({"render_failed", "render_failed_partial",
                         "rejected", "decode_error"})
               => (records_created' = records_created /\ pc' = "loop") ]_vars

C12_Witness ==
    /\ Len(closed) = 2
    /\ closed[1].outcome = "render_failed"
    /\ closed[2].outcome = "rendered"
    /\ records_created = 1
    /\ pc = "done"

----------------------------------------------------------------------------
(* Adjacent objects                                                        *)

NonBlank(line) == Strip(line) # <<>>

\* the non-blank lines among lines p..q of the input
LinesOf(p, q) == SelectSeq(SubSeq(read, p, q), NonBlank)

\* lines p..q of the input are one well-formed object
IsObjectAt(p, q) ==
    /\ 1 <= p
    /\ p <= q
    /\ q <= Len(read)
    /\ NonBlank(read[p])
    /\ NonBlank(read[q])
    /\ json_loads(FullStr(SubSeq(read, p, q))).ok
    /\ json_loads(FullStr(SubSeq(read, p, q))).val.t = "dict"

\* lines p..q were handed to the decoder as one buffer of their own
DecodedAlone(p, q) ==
    \E i \in 1..Len(closed) :
        /\ closed[i].first = p
        /\ closed[i].line = q
        /\ closed[i].text = FullStr(LinesOf(p, q))

\* two well-formed objects follow each other with no line between them, the
\* first met in IDLE
AdjacentObjects(p, q, r) ==
    /\ IdleBefore(p)
    /\ IsObjectAt(p, q)
    /\ IsObjectAt(q + 1, r)

\* C14: two well-formed objects on adjacent lines with no title line
\* between them are neither merged nor truncated: each is handed to the
\* decoder as its own buffer holding exactly its own lines, whether the
\* objects span several lines or occupy one line each.
C14_AdjacentObjectsDecodedSeparately ==
    \A p \in 1..Len(read), q \in 1..Len(read), r \in 1..Len(read) :
        AdjacentObjects(p, q, r) => (DecodedAlone(p, q) /\ DecodedAlone(q + 1, r))

\* the part of C14 about objects that span several lines
AdjacentMultiLineObjectsDecodedSeparately ==
    \A p \in 1..Len(read), q \in 1..Len(read), r \in 1..Len(read) :
        (AdjacentObjects(p, q, r) /\ p < q /\ q + 1 < r)
            => (DecodedAlone(p, q) /\ DecodedAlone(q + 1, r))

----------------------------------------------------------------------------
(* Lines read while ACCUMULATING                                           *)

\* the step reads a line while the extractor is ACCUMULATING
ReadsWhileAccumulating ==
    /\ pc = "loop"
    /\ in_json
    /\ lines_read' = lines_read + 1

\* the line just read went to the buffer and its delta to the balance
Appended ==
    /\ buffer' = Append(buffer, LineJustRead)
    /\ brace_balance'
         = brace_balance + count_braces_ignoring_strings(LineJustRead).net_change

\* C15 as stated: while ACCUMULATING every line read, blank and
\* whitespace-only lines included, is appended to the buffer and its net
\* brace delta added to the balance.
C15_EveryLineAppended ==
    [][ ReadsWhileAccumulating => Appended ]_vars

\* C15, amended: while ACCUMULATING every non-blank line read,
\* whatever its content, is appended to the buffer and its net brace delta
\* added to the balance; a blank or whitespace-only line is skipped and
\* leaves buffer, balance and state as they were.
C15_EveryNonBlankLineAppended ==
    [][ ReadsWhileAccumulating =>
            IF Strip(LineJustRead) # <<>>
            THEN Appended
            ELSE /\ buffer' = buffer
                 /\ brace_balance' = brace_balance
                 /\ in_json' ]_vars

C15_Witness ==
    /\ in_json
    /\ read = <<LOpen, LBlank, LName, LTitleA>>
    /\ buffer = <<LOpen, LName, LTitleA>>
    /\ brace_balance = 1

----------------------------------------------------------------------------
(* The buffer and its balance                                              *)

RECURSIVE SumOfDeltas(_)
SumOfDeltas(ls) ==
    IF ls = <<>> THEN 0
    ELSE count_braces_ignoring_strings(Head(ls)).net_change + SumOfDeltas(Tail(ls))

\* C16: while ACCUMULATING, brace_balance is the sum of the net brace
\* deltas of the lines in the buffer, the opening line's own delta first; a
\* balance that an over-closed earlier candidate left below zero is not
\* carried into the next candidate.
C16_BalanceIsSumOfBufferDeltas ==
    in_json => /\ buffer # <<>>
               /\ brace_balance = SumOfDeltas(buffer)

C16_Witness ==
    /\ read = <<LObject, LClose, LOpen, LOpenName>>
    /\ Len(closed) = 1
    /\ SumOfDeltas(LinesOf(closed[1].first, closed[1].line)) = -1
    /\ in_json
    /\ buffer = <<LOpen, LOpenName>>
    /\ brace_balance = 2

\* C17: the text handed to the decoder for a candidate is built from
\* the non-blank lines read from its opening line through its closing line
\* and from nothing else: their concatenation, trimmed, less at most one
\* trailing comma; no line of an earlier candidate and no line read in IDLE
\* before the opening line is part of it.
C17_TextIsOwnLinesOnly ==
    /\ in_json => buffer = LinesOf(opened.line, Len(read))
    /\ \A i \in 1..Len(closed) :
           LET whole == Strip(Join(LinesOf(closed[i].first, closed[i].line))) IN
           /\ closed[i].first >= 1
           /\ i > 1 => closed[i].first > closed[i - 1].line
           /\ IF whole # <<>> /\ whole[Len(whole)] = ","
              THEN closed[i].text \o <<",">> = whole
              ELSE closed[i].text = whole

C17_Witness ==
    /\ read = <<LOpenName, LClose, LTitleA, LOpenName, LCloseComma>>
    /\ Len(closed) = 2
    /\ closed[2].first = 4
    /\ closed[2].text = Strip(LOpenName \o LClose)
    /\ closed[2].outcome = "rendered"

\* the log entries at WARNING or ERROR level
Complaints == {i \in 1..Len(log) : LogLevel(log[i]) \in {"WARNING", "ERROR"}}

\* the finalized candidates that the loop logs a warning or an error for
Complained ==
    {j \in 1..Len(closed) :
        closed[j].outcome \in {"decode_error", "rejected", "render_failed",
                               "render_failed_partial"}}

\* C18: a candidate whose balance does not return to <= 0 absorbs
\* every remaining non-blank line: while it is open nothing after its opening
\* line is emitted, and when the input ends it is dropped with no decode
\* attempt, no document and no warning or error in the log.
C18_OpenBufferAbsorbsAndIsDropped ==
    in_json =>
        /\ buffer = LinesOf(opened.line, Len(read))
        /\ \A i \in 1..Len(closed) : closed[i].line < opened.line
        /\ pc # "raised"
        /\ pc = "done" =>
               /\ files = FilesLeftBy(Len(closed))
               /\ records_created = Cardinality(Rendered)
               /\ Cardinality(Complaints) = Cardinality(Complained)
               /\ log[Len(log)] = "done"

C18_Witness ==
    /\ pc = "done"
    /\ in_json
    /\ read = <<LOpenName, LClose, LOpen, LOpenName, LClose>>
    /\ buffer = <<LOpen, LOpenName, LClose>>
    /\ Len(closed) = 1
    /\ records_created = 1
    /\ files = {PlainName(Untitled)}
    /\ Complaints = {}

====
